---- MODULE Spec2Model ----
(***************************************************************************)
(* Layout-and-fit engine of the one-page summary generators:               *)
(*   src/tmp/pdfs/generate_tidum_app_summary_pdf.py   (vector / PDF)       *)
(*   src/scripts/generate_onepager_imagegen.py        (raster / PNG)       *)
(*                                                                         *)
(* A text is a sequence of one-character strings.  Lengths are integers in *)
(* units of 1e-5 pt (PDF variant) and 1e-3 px (raster variant); font sizes *)
(* are in 1e-3 pt; a scale factor is in hundredths (96 is 0.96).  The      *)
(* decimal arithmetic of the source is carried out exactly.                *)
(***************************************************************************)
EXTENDS Integers, Sequences, FiniteSets, TLC

VARIABLES
    \* ---- calls of the text functions (wrap_text, draw_*, draw_section)
    text,        \* the text run passed in
    font_size,   \* font_size argument of the PDF functions
    width,       \* width argument of the PDF functions
    max_width,   \* max_width argument of the raster wrap_text
    op,          \* which function has been applied ("none" before the call)
    lines,       \* list returned by wrap_text
    drawn,       \* drawString calls made on the canvas by draw_paragraph/draw_bullet
    ret_y,       \* y returned by draw_paragraph / draw_bullet
    text_lines,  \* text_lines built by the raster draw_section
    raster_y,    \* the raster script's global y
    \* ---- build_single_page_pdf
    sections,    \* the content: sequence of [title, lines, as_bullets]
    scales,      \* the ordered scale candidates of the for loop
    pc,          \* position in build_single_page_pdf
    k,           \* index in scales of the current attempt
    i,           \* number of sections the section loop has taken so far
    y,           \* the cursor
    overflow,    \* the overflow flag
    c,           \* drawString calls on the current canvas
    file         \* what was last saved at output_path (<<>>: nothing yet)

textVars   == <<text, font_size, width, max_width, op, lines, drawn, ret_y,
                text_lines, raster_y>>
driverVars == <<sections, scales, pc, k, i, y, overflow, c, file>>
vars       == <<text, font_size, width, max_width, op, lines, drawn, ret_y,
                text_lines, raster_y,
                sections, scales, pc, k, i, y, overflow, c, file>>

-----------------------------------------------------------------------------
(* Units *)

\* one point, in length units
Pt == 100000

\* one pixel, in raster length units
Px == 1000

Rep(ch, n) == [j \in 1..n |-> ch]

-----------------------------------------------------------------------------
(* Metrics: advance widths in 1/1000 em.  Helvetica (and the metrically    *)
(* identical Arial of the raster script): space 278, i 222, W 944,         *)
(* hyphen 333, bullet 350, the other letters used here 556.                *)

BULLET == "bullet"   \* the glyph U+2022

CharWidth(ch) ==
    CASE ch = " "    -> 278
      [] ch = "i"    -> 222
      [] ch = "W"    -> 944
      [] ch = "-"    -> 333
      [] ch = BULLET -> 350
      [] OTHER       -> 556

\* sum of the advance widths of the characters of s
RECURSIVE SumWidths(_, _)
SumWidths(s, chars) ==
    IF chars = {} THEN 0
    ELSE LET ch == CHOOSE x \in chars : TRUE
         IN  Cardinality({j \in 1..Len(s) : s[j] = ch}) * CharWidth(ch)
             + SumWidths(s, chars \ {ch})

EmWidth(s) == SumWidths(s, {s[j] : j \in 1..Len(s)})

\* pdfmetrics.stringWidth(text, font_name, font_size)
stringWidth(s, font_name, size) == (EmWidth(s) * size) \div 10

\* body_font of the raster script: Arial at 31 px
body_font == 31

\* d.textlength(t, font=font)
textlength(s, font) == EmWidth(s) * font

-----------------------------------------------------------------------------
(* str.split(), str.strip(), " ".join() *)

IsSpace(ch) == ch = " "

\* str.split(): the maximal runs of non-whitespace characters, in order
split(s) ==
    LET starts == {j \in 1..Len(s) :
                      ~IsSpace(s[j]) /\ (j = 1 \/ IsSpace(s[j - 1]))}
        ends   == {j \in 1..Len(s) :
                      ~IsSpace(s[j]) /\ (j = Len(s) \/ IsSpace(s[j + 1]))}
        nth(S, n) == CHOOSE j \in S : Cardinality({m \in S : m <= j}) = n
    IN  [n \in 1..Cardinality(starts) |-> SubSeq(s, nth(starts, n), nth(ends, n))]

\* str.strip(): without the leading and trailing whitespace
strip(s) ==
    LET solid == {j \in 1..Len(s) : ~IsSpace(s[j])}
    IN  IF solid = {} THEN <<>>
        ELSE SubSeq(s, CHOOSE j \in solid : \A m \in solid : j <= m,
                       CHOOSE j \in solid : \A m \in solid : m <= j)

RECURSIVE JoinFrom(_, _)
JoinFrom(ls, n) ==
    IF n = 0 THEN <<>>
    ELSE IF n = 1 THEN ls[1]
    ELSE JoinFrom(ls, n - 1) \o <<" ">> \o ls[n]

\* " ".join(ls)
join(ls) == JoinFrom(ls, Len(ls))

-----------------------------------------------------------------------------
(* wrap_text of the PDF script *)

\* a plausible slip: only the new word is measured, not the whole candidate
wrap_fits_word_only(current, word, font_name, size, width_) ==
    stringWidth(word, font_name, size) <= width_

\* candidate = f"{current} {word}"; stringWidth(candidate, ...) <= width
wrap_fits(current, word, font_name, size, width_) ==
    stringWidth(current \o <<" ">> \o word, font_name, size) <= width_

\* a plausible slip: the buffer is restarted without being appended
wrap_flush_dropping(lines_, current, word) == <<lines_, word>>

\* the else branch of the loop: flush the buffer, restart it with the word
wrap_flush(lines_, current, word) == <<Append(lines_, current), word>>

RECURSIVE wrap_loop(_, _, _, _, _, _, _)
wrap_loop(words, j, current, lines_, font_name, size, width_) ==
    IF j > Len(words)
    THEN Append(lines_, current)
    ELSE LET word      == words[j]
             candidate == current \o <<" ">> \o word
         IN  IF wrap_fits(current, word, font_name, size, width_)
             THEN wrap_loop(words, j + 1, candidate, lines_, font_name, size, width_)
             ELSE LET f == wrap_flush(lines_, current, word)
                  IN  wrap_loop(words, j + 1, f[2], f[1], font_name, size, width_)

wrap_text(text_, font_name, size, width_) ==
    LET words == split(text_)
    IN  IF words = <<>>
        THEN << <<>> >>
        ELSE wrap_loop(words, 2, words[1], <<>>, font_name, size, width_)

-----------------------------------------------------------------------------
(* wrap_text of the raster script *)

RECURSIVE onepager_loop(_, _, _, _, _, _)
onepager_loop(words, j, line, lines_, font, max_width_) ==
    IF j > Len(words)
    THEN IF line # <<>> THEN Append(lines_, line) ELSE lines_
    ELSE LET w == words[j]
             t == strip(line \o <<" ">> \o w)
         IN  IF textlength(t, font) <= max_width_
             THEN onepager_loop(words, j + 1, t, lines_, font, max_width_)
             ELSE onepager_loop(words, j + 1, w, Append(lines_, line), font, max_width_)

wrap_text_onepager(text_, font, max_width_) ==
    onepager_loop(split(text_), 1, <<>>, <<>>, font, max_width_)

-----------------------------------------------------------------------------
(* draw_paragraph and draw_bullet of the PDF script.  A canvas is the      *)
(* sequence of its drawString calls, each with the font set at the time.   *)

DrawOp(x, y_, s, font_name, size) ==
    [x |-> x, y |-> y_, s |-> s, font |-> font_name, size |-> size]

\* for line in ls[j..]: c.drawString(x, y, line); y -= leading
RECURSIVE draw_lines(_, _, _, _, _, _, _, _)
draw_lines(c_, ls, j, x, y_, font_name, size, leading) ==
    IF j > Len(ls)
    THEN [c |-> c_, y |-> y_]
    ELSE draw_lines(Append(c_, DrawOp(x, y_, ls[j], font_name, size)),
                    ls, j + 1, x, y_ - leading, font_name, size, leading)

draw_paragraph(c_, text_, x, y_, width_, font_name, size, leading) ==
    LET ls == wrap_text(text_, font_name, size, width_)
    IN  draw_lines(c_, ls, 1, x, y_, font_name, size, leading)

bullet == <<"-", " ">>

\* x at which draw_bullet puts the continuation lines of a run
bullet_continuation_x(x, bullet_width) == x + bullet_width

draw_bullet(c_, text_, x, y_, width_, font_name, size, leading) ==
    LET bullet_width == stringWidth(bullet, font_name, size)
        wrapped      == wrap_text(text_, font_name, size, width_ - bullet_width)
    IN  IF wrapped # <<>>
        THEN LET c1 == Append(c_, DrawOp(x, y_, bullet, font_name, size))
                 c2 == Append(c1, DrawOp(x + bullet_width, y_, wrapped[1],
                                         font_name, size))
             IN  draw_lines(c2, wrapped, 2, bullet_continuation_x(x, bullet_width),
                            y_ - leading, font_name, size, leading)
        ELSE [c |-> c_, y |-> y_]

-----------------------------------------------------------------------------
(* draw_section of the raster script *)

W == 2480 * Px
raster_margin == 120 * Px
content_w == W - raster_margin * 2
inner_pad == 34 * Px
title_h == 56 * Px

\* for i, wl in enumerate(wrapped): ('* ' + wl) if i == 0 else ('  ' + wl)
RECURSIVE prefix_lines(_, _)
prefix_lines(wrapped, n) ==
    IF n = 0 THEN <<>>
    ELSE Append(prefix_lines(wrapped, n - 1),
                IF n = 1 THEN <<BULLET, " ">> \o wrapped[n]
                         ELSE <<" ", " ">> \o wrapped[n])

RECURSIVE section_text_lines(_, _, _)
section_text_lines(runs, n, as_bullet) ==
    IF n = 0 THEN <<>>
    ELSE section_text_lines(runs, n - 1, as_bullet) \o
         (IF as_bullet
          THEN LET wrapped == wrap_text_onepager(runs[n], body_font,
                                                 content_w - inner_pad * 2 - 40 * Px)
               IN  prefix_lines(wrapped, Len(wrapped))
          ELSE wrap_text_onepager(runs[n], body_font, content_w - inner_pad * 2))

draw_section(y_, runs, as_bullet) ==
    LET tl == section_text_lines(runs, Len(runs), as_bullet)
        h  == inner_pad + title_h + Len(tl) * 44 * Px + inner_pad
    IN  [text_lines |-> tl, y |-> y_ + h + 26 * Px]

-----------------------------------------------------------------------------
(* build_single_page_pdf: page geometry and scaled typography *)

\* reportlab.lib.pagesizes.letter: 612 pt x 792 pt
letter == <<612 * Pt, 792 * Pt>>

page_width == letter[1]
height == letter[2]
margin == 48 * Pt
content_width == page_width - (margin * 2)

title ==
    <<"T", "i", "d", "u", "m", " ", "A", "p", "p", " ",
      "S", "u", "m", "m", "a", "r", "y", " ",
      "(", "R", "e", "p", "o", "-", "b", "a", "s", "e", "d", ")">>

\* font sizes in 1e-3 pt, leadings and gaps in length units, at scale s/100
title_size(s)      == 240 * s
heading_size(s)    == 135 * s
body_size(s)       == 110 * s
title_leading(s)   == 28 * s * (Pt \div 100)
heading_leading(s) == 17 * s * (Pt \div 100)
body_leading(s)    == 136 * s * (Pt \div 1000)
section_gap(s)     == 8 * s * (Pt \div 100)

\* the cursor at the start of an attempt
attempt_start_y == height - margin

\* title, rule under it, and the two gaps that follow
draw_title(c_, y_, s) ==
    [c |-> Append(c_, DrawOp(margin, y_, title, "Helvetica-Bold", title_size(s))),
     y |-> y_ - title_leading(s) - 8 * s * (Pt \div 100) - 1 * s * (Pt \div 100)]

\* y = draw_bullet(...) or y = draw_paragraph(...) for one run
draw_run(c_, y_, run, as_bullets, s) ==
    IF as_bullets
    THEN draw_bullet(c_, run, margin, y_, content_width,
                     "Helvetica", body_size(s), body_leading(s))
    ELSE draw_paragraph(c_, run, margin, y_, content_width,
                        "Helvetica", body_size(s), body_leading(s))

\* for line in lines[lo..hi]: y = draw_...(c, line, ..., y, ...)
\* (the runs are taken left to right; the range is halved only to keep the
\* evaluation shallow)
RECURSIVE draw_runs(_, _, _, _, _, _, _)
draw_runs(c_, y_, runs, lo, hi, as_bullets, s) ==
    IF lo > hi THEN [c |-> c_, y |-> y_]
    ELSE IF lo = hi THEN draw_run(c_, y_, runs[lo], as_bullets, s)
    ELSE LET mid   == (lo + hi) \div 2
             first == draw_runs(c_, y_, runs, lo, mid, as_bullets, s)
         IN  \* the test only makes the first half be evaluated before the
             \* second: a cursor never moves up
             IF first.y <= y_
             THEN draw_runs(first.c, first.y, runs, mid + 1, hi, as_bullets, s)
             ELSE first

\* one pass of the section loop body up to the overflow test
layout_section(c_, y_, section, s) ==
    LET c1 == Append(c_, DrawOp(margin, y_, section.title, "Helvetica-Bold",
                                heading_size(s)))
        r  == draw_runs(c1, y_ - heading_leading(s), section.lines,
                        1, Len(section.lines), section.as_bullets, s)
    IN  [c |-> r.c, y |-> r.y - section_gap(s)]

\* a plausible slip: the test is made against the bare page edge
overflows_page_edge(y_) == y_ < 0

\* a plausible slip: the 8 pt of slack above the bottom margin is left out
overflows_no_slack(y_) == y_ < margin

\* if y < margin + 8
overflows(y_) == y_ < margin + 8 * Pt

-----------------------------------------------------------------------------
(* build_single_page_pdf: the scale loop *)

\* a plausible slip: the cursor is carried over from the previous attempt
StartAttempt_stale_cursor ==
    /\ pc = "attempt"
    /\ LET s == scales[k]
           r == draw_title(<<>>, IF k = 1 THEN attempt_start_y ELSE y, s)
       IN  /\ c' = r.c
           /\ y' = r.y
    /\ overflow' = FALSE
    /\ i' = 0
    /\ pc' = IF sections = <<>> THEN "after" ELSE "sections"
    /\ UNCHANGED <<sections, scales, k, file>>
    /\ UNCHANGED textVars

\* top of the loop body: new canvas, cursor reset, title block, overflow = False
StartAttempt ==
    /\ pc = "attempt"
    /\ LET s == scales[k]
           r == draw_title(<<>>, attempt_start_y, s)
       IN  /\ c' = r.c
           /\ y' = r.y
    /\ overflow' = FALSE
    /\ i' = 0
    /\ pc' = IF sections = <<>> THEN "after" ELSE "sections"
    /\ UNCHANGED <<sections, scales, k, file>>
    /\ UNCHANGED textVars

\* one iteration of the section loop: heading, runs, gap, overflow test
LayoutSection ==
    /\ pc = "sections"
    /\ LET r == layout_section(c, y, sections[i + 1], scales[k])
       IN  /\ c' = r.c
           /\ y' = r.y
           /\ i' = i + 1
           /\ overflow' = overflows(r.y)
           /\ pc' = IF overflows(r.y) \/ i + 1 = Len(sections)
                    THEN "after" ELSE "sections"
    /\ UNCHANGED <<sections, scales, k, file>>
    /\ UNCHANGED textVars

\* if not overflow: c.save(); return
SaveAndReturn ==
    /\ pc = "after"
    /\ ~overflow
    /\ file' = c
    /\ pc' = "done"
    /\ UNCHANGED <<sections, scales, k, i, y, overflow, c>>
    /\ UNCHANGED textVars

\* a plausible slip: an overflowing attempt is not saved
SaveAndRetry_unsaved ==
    /\ pc = "after"
    /\ overflow
    /\ IF k < Len(scales)
       THEN k' = k + 1 /\ pc' = "attempt"
       ELSE k' = k /\ pc' = "exhausted"
    /\ UNCHANGED <<sections, scales, i, y, overflow, c, file>>
    /\ UNCHANGED textVars

\* overflow: c.save(), then on to the next candidate if there is one
SaveAndRetry ==
    /\ pc = "after"
    /\ overflow
    /\ file' = c
    /\ IF k < Len(scales)
       THEN k' = k + 1 /\ pc' = "attempt"
       ELSE k' = k /\ pc' = "exhausted"
    /\ UNCHANGED <<sections, scales, i, y, overflow, c>>
    /\ UNCHANGED textVars

\* the loop is exhausted: keep the smallest scale output, return
ReturnFallback ==
    /\ pc = "exhausted"
    /\ pc' = "done"
    /\ UNCHANGED <<sections, scales, k, i, y, overflow, c, file>>
    /\ UNCHANGED textVars

-----------------------------------------------------------------------------
(* Content and candidate lists the driver is run on *)

\* most sections of a content
MaxSections == 2

\* most runs of a short section
MaxSmallRuns == 1

\* most runs of a section that fills the page with one-line runs
MaxRuns == 52

\* fewest runs of such a section: 49 one-line runs fit at scale 0.93, not above
MinBigRuns == 49

\* a blank run, and a run that takes two lines at scale 1.0 and one below
RunTexts == { <<>>, Rep("W", 25) \o <<" ">> \o Rep("W", 25) }

\* a run that takes one line at every scale
OneLineRun == <<"i", "i">>

\* short sections of equal runs, as paragraphs (titled A) or bullets (titled B)
SmallSections ==
    { [title |-> IF b THEN <<"B">> ELSE <<"A">>, lines |-> Rep(t, n),
       as_bullets |-> b] :
        t \in RunTexts, n \in 0..MaxSmallRuns, b \in BOOLEAN }

\* paragraph sections (titled C) long enough to reach the foot of the page
BigSections ==
    { [title |-> <<"C">>, lines |-> Rep(OneLineRun, n), as_bullets |-> FALSE] :
        n \in MinBigRuns..MaxRuns }

SectionSet == SmallSections \cup BigSections

Contents == UNION {[1..n -> SectionSet] : n \in 0..MaxSections}

\* the candidate list of the source, a single candidate, a coarser list
ScaleLists == { <<100, 96, 93, 90>>, <<100>>, <<100, 90, 80>> }

TextIdle ==
    /\ text = <<>>
    /\ font_size = 11000
    /\ width = content_width
    /\ max_width = content_w
    /\ op = "idle"
    /\ lines = <<>>
    /\ drawn = <<>>
    /\ ret_y = 0
    /\ text_lines = <<>>
    /\ raster_y = 0

Init ==
    /\ sections \in Contents
    /\ scales \in ScaleLists
    /\ pc = "attempt"
    /\ k = 1
    /\ i = 0
    /\ y = 0
    /\ overflow = FALSE
    /\ c = <<>>
    /\ file = <<>>
    /\ TextIdle

Next ==
    \/ StartAttempt
    \/ LayoutSection
    \/ SaveAndReturn
    \/ SaveAndRetry
    \/ ReturnFallback

Spec == Init /\ [][Next]_vars

-----------------------------------------------------------------------------
(* Properties of the scale loop, stated for Spec *)

\* candidate number j run on its own over the first n sections: canvas and cursor
RECURSIVE Alone(_, _)
Alone(j, n) ==
    IF n = 0
    THEN draw_title(<<>>, height - margin, scales[j])
    ELSE LET before == Alone(j, n - 1)
         IN  layout_section(before.c, before.y, sections[n], scales[j])

\* the cursor below the whole content at candidate j
FinalY(j) == Alone(j, Len(sections)).y

\* height used from the top edge of the page down to the final cursor
UsedHeight(j) == height - FinalY(j)

Candidates == 1..Len(scales)

\* the height condition as the specification words it
FitsPage(j) == UsedHeight(j) <= height - margin

\* the height condition with the 8 pt of slack above the bottom margin
FitsWithSlack(j) == UsedHeight(j) <= height - margin - 8 * Pt

\* C1 as stated: the driver ends on the first candidate, in list order,
\* whose used height is at most pageHeight - margin.
C1_FirstWithinMargin ==
    pc = "done" =>
        /\ ~overflow => FitsPage(k) /\ \A m \in 1..(k - 1) : ~FitsPage(m)
        /\ overflow => \A j \in Candidates : ~FitsPage(j)

\* C1 amended: the driver ends on the first candidate, in list order, whose
\* used height is at most pageHeight - margin - 8 pt; every earlier
\* candidate exceeded that, and none after it is attempted.
C1_FirstFit ==
    pc = "done" =>
        /\ ~overflow =>
              /\ FitsWithSlack(k)
              /\ \A m \in 1..(k - 1) : ~FitsWithSlack(m)
              /\ file = c
        /\ overflow => \A j \in Candidates : ~FitsWithSlack(j)

\* the driver stopped on the third or a later candidate
C1_Witness ==
    /\ pc = "done"
    /\ ~overflow
    /\ k >= 3
    /\ FitsWithSlack(k)
    /\ \A m \in 1..(k - 1) : ~FitsWithSlack(m)

\* the font sizes an attempt at scale s draws with
SizesAt(s) == {title_size(s), heading_size(s), body_size(s)}

C3_InsideMargins ==
    (pc = "done" /\ ~overflow) =>
        /\ file # <<>>
        /\ file[1].y = height - margin
        /\ \A n \in 1..(Len(file) - 1) : file[n + 1].y <= file[n].y
        /\ \A n \in 1..Len(file) : file[n].y >= margin
        /\ y <= file[Len(file)].y
        /\ y >= margin
        /\ margin + (height - margin - y) + margin <= height

\* a successful attempt at a shrunken scale that ends within 20 pt of the limit
\* of margin + 8 pt
C3_Witness ==
    /\ pc = "done"
    /\ ~overflow
    /\ k > 1
    /\ y < margin + 28 * Pt

\* C4: whatever attempts came before, the canvas, the cursor and the
\* overflow flag of the current attempt are those of the same candidate
\* run on its own over the sections taken so far.
C4_AttemptsIndependent ==
    pc \in {"sections", "after", "exhausted", "done"} =>
        LET alone == Alone(k, i)
        IN  /\ c = alone.c
            /\ y = alone.y
            /\ overflow = (i >= 1 /\ alone.y < margin + 8 * Pt)

\* inside a second or later attempt, with sections laid out
C4_Witness ==
    /\ pc = "after"
    /\ k >= 2
    /\ i >= 2

\* the section headings drawn on a canvas at scale s
Headings(ops, s) ==
    SelectSeq(ops, LAMBDA o : o.font = "Helvetica-Bold" /\ o.size = heading_size(s))

\* C9: the saved output the driver ends with holds the title and the
\* heading of every section of the input, in input order.
C9_CompleteLayout ==
    pc = "done" =>
        /\ file # <<>>
        /\ file[1].s = title
        /\ LET hs == Headings(file, scales[k])
           IN  [n \in 1..Len(hs) |-> hs[n].s]
                   = [n \in 1..Len(sections) |-> sections[n].title]

-----------------------------------------------------------------------------
(* Calls of the text functions on bounded inputs *)

\* longest text enumerated character by character
MaxLen == 5

Alphabet == {" ", "i", "W"}

ShortTexts == UNION {[1..n -> Alphabet] : n \in 0..MaxLen}

\* texts long enough to wrap at the fixed widths of the page layouts
LongTexts ==
    { Rep("W", 40) \o <<" ">> \o Rep("W", 40) \o <<" ", "i">>,
      Rep("W", 80) \o <<" ", "i">>,
      Rep("W", 25) \o <<" ">> \o Rep("W", 25) }

Texts == ShortTexts \cup LongTexts

\* font_size arguments: 11 pt and 9.9 pt
FontSizes == {11000, 9900}

\* width arguments of the PDF functions: 8 pt, 24 pt, 516 pt
Widths == {8 * Pt, 24 * Pt, 516 * Pt}

\* max_width arguments of the raster wrap_text: 25 px, 70 px, 2172 px
MaxWidths == {25 * Px, 70 * Px, 2172 * Px}

\* x, y and leading passed to draw_paragraph / draw_bullet
CallX == 48 * Pt
CallY == 700 * Pt
CallLeading == 136 * (Pt \div 10)

\* y = 410 before the first draw_section
RasterY0 == 410 * Px

DriverIdle ==
    /\ sections = <<>>
    /\ scales = <<100>>
    /\ pc = "idle"
    /\ k = 0
    /\ i = 0
    /\ y = 0
    /\ overflow = FALSE
    /\ c = <<>>
    /\ file = <<>>

InitText ==
    /\ text \in Texts
    /\ font_size \in FontSizes
    /\ width \in Widths
    /\ max_width \in MaxWidths
    /\ op = "none"
    /\ lines = <<>>
    /\ drawn = <<>>
    /\ ret_y = CallY
    /\ text_lines = <<>>
    /\ raster_y = RasterY0
    /\ DriverIdle

CallWrapText ==
    /\ op = "none"
    /\ op' = "wrap_text"
    /\ lines' = wrap_text(text, "Helvetica", font_size, width)
    /\ UNCHANGED <<text, font_size, width, max_width, drawn, ret_y, text_lines, raster_y>>
    /\ UNCHANGED driverVars

CallWrapTextOnepager ==
    /\ op = "none"
    /\ op' = "wrap_text_onepager"
    /\ lines' = wrap_text_onepager(text, body_font, max_width)
    /\ UNCHANGED <<text, font_size, width, max_width, drawn, ret_y, text_lines, raster_y>>
    /\ UNCHANGED driverVars

CallDrawParagraph ==
    /\ op = "none"
    /\ op' = "draw_paragraph"
    /\ LET r == draw_paragraph(<<>>, text, CallX, CallY, width, "Helvetica",
                               font_size, CallLeading)
       IN  drawn' = r.c /\ ret_y' = r.y
    /\ UNCHANGED <<text, font_size, width, max_width, lines, text_lines, raster_y>>
    /\ UNCHANGED driverVars

CallDrawBullet ==
    /\ op = "none"
    /\ op' = "draw_bullet"
    /\ LET r == draw_bullet(<<>>, text, CallX, CallY, width, "Helvetica",
                            font_size, CallLeading)
       IN  drawn' = r.c /\ ret_y' = r.y
    /\ UNCHANGED <<text, font_size, width, max_width, lines, text_lines, raster_y>>
    /\ UNCHANGED driverVars

CallDrawSection ==
    /\ op = "none"
    /\ \E as_bullet \in BOOLEAN :
          /\ op' = (IF as_bullet THEN "draw_section_bullet" ELSE "draw_section")
          /\ LET r == draw_section(raster_y, <<text>>, as_bullet)
             IN  text_lines' = r.text_lines /\ raster_y' = r.y
    /\ UNCHANGED <<text, font_size, width, max_width, lines, drawn, ret_y>>
    /\ UNCHANGED driverVars

NextText ==
    \/ CallWrapText
    \/ CallWrapTextOnepager
    \/ CallDrawParagraph
    \/ CallDrawBullet
    \/ CallDrawSection

SpecText == InitText /\ [][NextText]_vars

-----------------------------------------------------------------------------
(* Properties of the text functions, stated for SpecText *)

Wrapped == op \in {"wrap_text", "wrap_text_onepager"}

\* measured width of a returned line and the width it was wrapped to,
\* in the units of the variant that produced it
LineWidth(l) ==
    IF op = "wrap_text" THEN stringWidth(l, "Helvetica", font_size)
                        ELSE textlength(l, body_font)

WrapLimit == IF op = "wrap_text" THEN width ELSE max_width

\* C5: wrap_text on a text without tokens returns exactly one line, the
\* empty string, in both implementations.
C5_EmptyTextOneEmptyLine ==
    (Wrapped /\ split(text) = <<>>) => lines = << <<>> >>

\* C6: every returned line measures at most the wrap width, except a line
\* made of exactly one token that is itself wider than the wrap width.
C6_LinesWithinWidth ==
    Wrapped =>
        \A j \in 1..Len(lines) :
            \/ LineWidth(lines[j]) <= WrapLimit
            \/ /\ Len(split(lines[j])) = 1
               /\ LineWidth(split(lines[j])[1]) > WrapLimit

\* a wrap that produced a two-token line and a line holding one over-wide token
C6_Witness ==
    /\ op = "wrap_text"
    /\ \E j \in 1..Len(lines) : Len(split(lines[j])) >= 2
    /\ \E j \in 1..Len(lines) :
          Len(split(lines[j])) = 1 /\ LineWidth(lines[j]) > WrapLimit

\* C7: joining the returned lines with single spaces and splitting on
\* whitespace gives back exactly the token sequence of the text.
C7_RoundTrip ==
    Wrapped => split(join(lines)) = split(text)

\* a wrap of at least three tokens over at least two lines
C7_Witness ==
    /\ op = "wrap_text"
    /\ Len(split(text)) >= 3
    /\ Len(lines) >= 2

\* C10: for a text with at least one token no returned line is empty and
\* the number of lines is between 1 and the number of tokens.
C10_NoEmptyLine ==
    (Wrapped /\ split(text) # <<>>) =>
        /\ \A j \in 1..Len(lines) : split(lines[j]) # <<>>
        /\ 1 <= Len(lines)
        /\ Len(lines) <= Len(split(text))

\* the drawString calls that draw the marker
Markers(ops) == {j \in 1..Len(ops) : ops[j].s = bullet}

BulletWidth == stringWidth(bullet, "Helvetica", font_size)

\* draw_bullet: marker first, at the run's x and y; all text at x + marker width
C8_Pdf ==
    op = "draw_bullet" =>
        /\ Markers(drawn) = {1}
        /\ drawn[1].y = CallY /\ drawn[1].x = CallX
        /\ Len(drawn) >= 2
        /\ drawn[2].y = CallY
        /\ \A j \in 2..Len(drawn) : drawn[j].x = CallX + BulletWidth

RasterMarker == <<BULLET, " ">>

HasMarker(l) == Len(l) >= 1 /\ l[1] = BULLET

\* draw_section: marker on the first line only; the rest indented as wide
C8_Raster ==
    op = "draw_section_bullet" =>
        /\ {j \in 1..Len(text_lines) : HasMarker(text_lines[j])} = {1}
        /\ \A j \in 2..Len(text_lines) :
              /\ SubSeq(text_lines[j], 1, 2) = <<" ", " ">>
              /\ textlength(SubSeq(text_lines[j], 1, 2), body_font)
                     = textlength(RasterMarker, body_font)

\* C8: one visible bullet marker per run, on the first wrapped line of the
\* run; continuation lines carry no marker and start where the first
\* line's text starts; in draw_bullet and in the bulleted draw_section.
C8_OneMarkerPerRun == C8_Pdf /\ C8_Raster

====
